---- MODULE Spec2Model ----
(***************************************************************************)
(* bboltfs: a filesystem interface over two bbolt buckets ("files" and     *)
(* "dirs").  The model keeps the two buckets, the open file handles and    *)
(* the wall clock; every exported method of BBolt, bboltFile and           *)
(* bboltDirFile is an operator computed the way the Go code computes it,   *)
(* and an action that applies it.                                          *)
(*                                                                         *)
(* Backend contract assumed of bbolt (the package is a dependency, not     *)
(* part of this repository): Get/Put/Delete on a bucket inside one         *)
(* transaction are atomic, Put rejects an empty key, Delete of an absent   *)
(* key succeeds, a cursor walks the keys in bytewise order, and a value    *)
(* handed out by Get keeps its bytes.                                      *)
(***************************************************************************)
EXTENDS Integers, Sequences, FiniteSets, TLC

(***************************************************************************)
(* Bounds of the model.                                                    *)
(***************************************************************************)
MaxLen == 2
MaxTime == 1
NumHandles == 2

Byte == {0, 1}
Handles == 1..NumHandles
Times == 0..MaxTime

(***************************************************************************)
(* Sequences of bytes.                                                     *)
(***************************************************************************)
Min(a, b) == IF a < b THEN a ELSE b

Take(s, n) == SubSeq(s, 1, Min(n, Len(s)))

Drop(s, n) == SubSeq(s, n + 1, Len(s))

\* make([]byte, n): n zero bytes
Zeros(n) == [i \in 1..n |-> 0]

\* the byte strings of length lo..hi over Byte
BytesOfLen(lo, hi) == UNION {[1..n -> Byte] : n \in lo..hi}

\* bytes.HasPrefix / strings.HasPrefix
HasPrefix(s, prefix) ==
  /\ Len(prefix) <= Len(s)
  /\ SubSeq(s, 1, Len(prefix)) = prefix

\* strings.HasSuffix
HasSuffix(s, suffix) ==
  /\ Len(suffix) <= Len(s)
  /\ SubSeq(s, Len(s) - Len(suffix) + 1, Len(s)) = suffix

\* strings.TrimPrefix
TrimPrefix(s, prefix) == IF HasPrefix(s, prefix) THEN Drop(s, Len(prefix)) ELSE s

\* strings.Contains(s, string(c)) for a single character c
Contains(s, c) == \E i \in 1..Len(s) : s[i] = c

(***************************************************************************)
(* Paths are strings, modelled as sequences of character codes.            *)
(***************************************************************************)
Slash == 47
Dot == 46
ChA == 97
ChB == 98

RECURSIVE SplitFrom(_, _, _)
\* strings.Split(s, "/"): the segments between separators, empty ones kept
SplitFrom(s, i, cur) ==
  IF i > Len(s) THEN <<cur>>
  ELSE IF s[i] = Slash THEN <<cur>> \o SplitFrom(s, i + 1, <<>>)
  ELSE SplitFrom(s, i + 1, Append(cur, s[i]))

Split(s) == SplitFrom(s, 1, <<>>)

RECURSIVE JoinSegs(_)
\* the non-empty segments joined by single separators
JoinSegs(segs) ==
  IF segs = <<>> THEN <<>>
  ELSE IF Head(segs) = <<>> THEN JoinSegs(Tail(segs))
  ELSE LET rest == JoinSegs(Tail(segs))
       IN IF rest = <<>> THEN Head(segs) ELSE Head(segs) \o <<Slash>> \o rest

\* filepath.Clean / path.Clean on paths without "." and ".." segments:
\* repeated separators collapse, a trailing separator goes, "" becomes "."
Clean(p) ==
  LET rooted == Len(p) > 0 /\ p[1] = Slash
      body == JoinSegs(Split(p))
  IN IF rooted THEN <<Slash>> \o body
     ELSE IF body = <<>> THEN <<Dot>>
     ELSE body

\* path.Join(a, b): the non-empty elements joined, then cleaned
PathJoin(a, b) ==
  IF a = <<>> /\ b = <<>> THEN <<>>
  ELSE IF a = <<>> THEN Clean(b)
  ELSE IF b = <<>> THEN Clean(a)
  ELSE Clean(a \o <<Slash>> \o b)

\* filepath.Base: the last element, trailing separators removed
Base(p) ==
  LET segs == Split(p)
      nonEmpty == {i \in 1..Len(segs) : segs[i] # <<>>}
  IN IF p = <<>> THEN <<Dot>>
     ELSE IF nonEmpty = {} THEN <<Slash>>
     ELSE segs[CHOOSE i \in nonEmpty : \A j \in nonEmpty : j <= i]

(***************************************************************************)
(* Error values.                                                           *)
(***************************************************************************)
OK == "nil"
ErrNotExist == "os.ErrNotExist"
ErrClosed == "os.ErrClosed"
ErrInvalid == "os.ErrInvalid"
ErrEOF == "io.EOF"
ErrKeyRequired == "bbolt.ErrKeyRequired"
ErrWhence == "invalid whence"
ErrNegative == "negative position"

(***************************************************************************)
(* Metadata codec.  os.FileMode is a uint32; the model keeps it as its low *)
(* three bytes (lo, which holds the permission bits) and its top byte (hi, *)
(* which holds os.ModeDir = 1 << 31 as 128).                               *)
(***************************************************************************)
ModeDirHi == 128
ModePermMask == 511
DefaultPerm == 438

FileMode(lo, hi) == [lo |-> lo, hi |-> hi]

\* perm | os.ModeDir
OrModeDir(mode) == [mode EXCEPT !.hi = IF mode.hi >= ModeDirHi THEN mode.hi ELSE mode.hi + ModeDirHi]

\* FileMode.Perm()
Perm(mode) == mode.lo % (ModePermMask + 1)

fileMeta(mode, size, modTime, isDir) ==
  [Mode |-> mode, Size |-> size, ModTime |-> modTime, IsDir |-> isDir]

ZeroMeta == fileMeta(FileMode(0, 0), 0, 0, FALSE)

RECURSIVE PutLE(_, _)
\* binary.LittleEndian: n in w bytes, least significant first
PutLE(n, w) == IF w = 0 THEN <<>> ELSE <<n % 256>> \o PutLE(n \div 256, w - 1)

RECURSIVE GetLE(_)
GetLE(bs) == IF bs = <<>> THEN 0 ELSE bs[1] + 256 * GetLE(Tail(bs))

encodeMeta(meta) ==
  PutLE(meta.Mode.lo, 3) \o <<meta.Mode.hi>>
    \o PutLE(meta.Size, 8)
    \o PutLE(meta.ModTime, 8)
    \o <<IF meta.IsDir THEN 1 ELSE 0>>

decodeMeta(b) ==
  fileMeta(FileMode(GetLE(SubSeq(b, 1, 3)), b[4]),
           GetLE(SubSeq(b, 5, 12)),
           GetLE(SubSeq(b, 13, 20)),
           b[21] # 0)

metaLen == 4 + 8 + 8 + 1

(***************************************************************************)
(* A bucket is a function from its keys to their values; the cursor walks  *)
(* the keys in bytewise order.                                             *)
(***************************************************************************)
EmptyBucket == [k \in {} |-> <<>>]

RECURSIVE KeyLess(_, _)
\* bytes.Compare(a, b) < 0
KeyLess(a, b) ==
  IF b = <<>> THEN FALSE
  ELSE IF a = <<>> THEN TRUE
  ELSE IF a[1] # b[1] THEN a[1] < b[1]
  ELSE KeyLess(Tail(a), Tail(b))

RECURSIVE SortKeys(_)
SortKeys(ks) ==
  IF ks = {} THEN <<>>
  ELSE LET m == CHOOSE k \in ks : \A o \in ks \ {k} : KeyLess(k, o)
       IN <<m>> \o SortKeys(ks \ {m})

\* the keys a cursor visits from First()
CursorKeys(b) == SortKeys(DOMAIN b)

\* Cursor.Seek(k): the index of the first key >= k (past the end if none)
CursorSeek(keys, k) ==
  LET below == {i \in 1..Len(keys) : KeyLess(keys[i], k)}
  IN Cardinality(below) + 1

BucketPut(b, k, v) ==
  IF k = <<>> THEN [err |-> ErrKeyRequired, b |-> b]
  ELSE [err |-> OK, b |-> [x \in DOMAIN b \cup {k} |-> IF x = k THEN v ELSE b[x]]]

BucketDelete(b, k) == [x \in DOMAIN b \ {k} |-> b[x]]

(***************************************************************************)
(* BBolt: the path store.  d is the database, [files, dirs].               *)
(***************************************************************************)
saveFile(d, name, data, meta) ==
  LET r == BucketPut(d.files, name, encodeMeta(meta) \o data)
  IN [err |-> r.err, db |-> [d EXCEPT !.files = r.b]]

loadFile(d, name) ==
  IF name \notin DOMAIN d.files
  THEN [err |-> ErrNotExist, data |-> <<>>, meta |-> ZeroMeta]
  ELSE [err |-> OK,
        data |-> Drop(d.files[name], metaLen),
        meta |-> decodeMeta(d.files[name])]

saveDir(d, name, meta) ==
  LET r == BucketPut(d.dirs, name, encodeMeta(meta))
  IN [err |-> r.err, db |-> [d EXCEPT !.dirs = r.b]]

\* the View transaction of Open and Stat on the dirs bucket
loadDir(d, name) ==
  IF name \notin DOMAIN d.dirs
  THEN [err |-> ErrNotExist, meta |-> ZeroMeta]
  ELSE [err |-> OK, meta |-> decodeMeta(d.dirs[name])]

\* handles: a bboltFile, a bboltDirFile, or no handle (a nil File)
NoFile ==
  [kind |-> "nil", name |-> <<>>, meta |-> ZeroMeta, buffer |-> <<>>,
   offset |-> 0, closed |-> FALSE]

bboltFile(name, meta, buffer) ==
  [kind |-> "file", name |-> name, meta |-> meta, buffer |-> buffer,
   offset |-> 0, closed |-> FALSE]

bboltDirFile(name, meta) ==
  [kind |-> "dir", name |-> name, meta |-> meta, buffer |-> <<>>,
   offset |-> 0, closed |-> FALSE]

fileInfo(name, size, mode, modTime, isDir) ==
  [name |-> name, size |-> size, mode |-> mode, modTime |-> modTime, isDir |-> isDir]

NoInfo == fileInfo(<<>>, 0, FileMode(0, 0), 0, FALSE)

Create(d, name, t) ==
  LET meta == fileMeta(FileMode(DefaultPerm, 0), 0, t, FALSE)
      r == saveFile(d, name, <<>>, meta)
  IN IF r.err # OK THEN [err |-> r.err, db |-> d, file |-> NoFile]
     ELSE [err |-> OK, db |-> r.db, file |-> bboltFile(name, meta, <<>>)]

Mkdir(d, name, perm, t) ==
  saveDir(d, name, fileMeta(OrModeDir(perm), 0, t, TRUE))

RECURSIVE MkdirWalk(_, _, _, _, _)
\* the loop of MkdirAll over the segments dirs, dir being the path so far
MkdirWalk(d, dirs, dir, perm, t) ==
  IF dirs = <<>> THEN [err |-> OK, db |-> d]
  ELSE LET next == IF dir = <<>> THEN Head(dirs) ELSE PathJoin(dir, Head(dirs))
           r == Mkdir(d, next, perm, t)
       IN IF r.err # OK THEN [err |-> r.err, db |-> d]
          ELSE MkdirWalk(r.db, Tail(dirs), next, perm, t)

MkdirAll(d, p, perm, t) == MkdirWalk(d, Split(Clean(p)), <<>>, perm, t)

Open(d, name) ==
  LET f == loadFile(d, name)
      dir == loadDir(d, name)
  IN IF f.err = OK THEN [err |-> OK, file |-> bboltFile(name, f.meta, f.data)]
     ELSE IF dir.err = OK THEN [err |-> OK, file |-> bboltDirFile(name, dir.meta)]
     ELSE [err |-> ErrNotExist, file |-> NoFile]

\* os.O_RDONLY, os.O_WRONLY, os.O_RDWR, os.O_CREATE, os.O_APPEND
O_RDONLY == 0
O_WRONLY == 1
O_RDWR == 2
O_CREATE == 64
O_APPEND == 1024

RECURSIVE BitAnd(_, _)
BitAnd(a, b) ==
  IF a = 0 \/ b = 0 THEN 0
  ELSE (a % 2) * (b % 2) + 2 * BitAnd(a \div 2, b \div 2)

RECURSIVE BitOr(_, _)
BitOr(a, b) ==
  IF a = 0 THEN b
  ELSE IF b = 0 THEN a
  ELSE (IF a % 2 = 1 \/ b % 2 = 1 THEN 1 ELSE 0) + 2 * BitOr(a \div 2, b \div 2)

\* WriteIntent without os.O_WRONLY in the mask
WriteIntent_NoWronly(flag) == BitAnd(flag, BitOr(O_CREATE, O_RDWR)) # 0

\* flag&(os.O_CREATE|os.O_RDWR|os.O_WRONLY) != 0
WriteIntent(flag) == BitAnd(flag, BitOr(O_CREATE, BitOr(O_RDWR, O_WRONLY))) # 0

OpenFile(d, name, flag, perm, t) ==
  IF WriteIntent(flag) THEN Create(d, name, t)
  ELSE LET r == Open(d, name) IN [err |-> r.err, db |-> d, file |-> r.file]

\* Remove that also deletes the directory entry of the name
Remove_WithDir(d, name) ==
  [err |-> OK,
   db |-> [files |-> BucketDelete(d.files, name), dirs |-> BucketDelete(d.dirs, name)]]

Remove(d, name) ==
  [err |-> OK, db |-> [d EXCEPT !.files = BucketDelete(d.files, name)]]

RECURSIVE RemoveLoop(_, _, _, _)
\* the cursor loop of RemoveAll: from position i, delete while the key has the prefix
RemoveLoop(b, keys, i, prefix) ==
  IF i > Len(keys) \/ ~HasPrefix(keys[i], prefix) THEN b
  ELSE RemoveLoop(BucketDelete(b, keys[i]), keys, i + 1, prefix)

\* RemoveAll that also deletes the directory entries nested under p
RemoveAll_NestedDirs(d, p) ==
  LET keys == CursorKeys(d.files)
      left == RemoveLoop(d.files, keys, CursorSeek(keys, p), p)
      dkeys == CursorKeys(d.dirs)
  IN [err |-> OK,
      db |-> [files |-> left,
              dirs |-> RemoveLoop(d.dirs, dkeys, CursorSeek(dkeys, p), p)]]

RemoveAll(d, p) ==
  LET keys == CursorKeys(d.files)
      left == RemoveLoop(d.files, keys, CursorSeek(keys, p), p)
  IN [err |-> OK, db |-> [files |-> left, dirs |-> BucketDelete(d.dirs, p)]]

Rename(d, oldname, newname) ==
  LET l == loadFile(d, oldname)
      s == saveFile(d, newname, l.data, l.meta)
  IN IF l.err # OK THEN [err |-> l.err, db |-> d]
     ELSE IF s.err # OK THEN [err |-> s.err, db |-> d]
     ELSE Remove(s.db, oldname)

Stat(d, name) ==
  LET f == loadFile(d, name)
      dir == loadDir(d, name)
  IN IF f.err # OK
     THEN IF dir.err # OK THEN [err |-> f.err, info |-> NoInfo]
          ELSE [err |-> OK,
                info |-> fileInfo(Base(name), 0, dir.meta.Mode, dir.meta.ModTime, TRUE)]
     ELSE [err |-> OK,
           info |-> fileInfo(Base(name), f.meta.Size, f.meta.Mode, f.meta.ModTime,
                             f.meta.IsDir)]

\* Chmod that saves the new metadata without the payload
Chmod_DropData(d, name, mode) ==
  LET l == loadFile(d, name)
  IN IF l.err # OK THEN [err |-> l.err, db |-> d]
     ELSE saveFile(d, name, <<>>, [l.meta EXCEPT !.Mode = mode])

Chmod(d, name, mode) ==
  LET l == loadFile(d, name)
  IN IF l.err # OK THEN [err |-> l.err, db |-> d]
     ELSE saveFile(d, name, l.data, [l.meta EXCEPT !.Mode = mode])

Chown(d, name, uid, gid) == [err |-> OK, db |-> d]

Chtimes(d, name, atime, mtime) ==
  LET l == loadFile(d, name)
  IN IF l.err # OK THEN [err |-> l.err, db |-> d]
     ELSE saveFile(d, name, l.data, [l.meta EXCEPT !.ModTime = mtime])

\* the prefix readDir scans for
DirPrefix(dir) ==
  IF ~HasSuffix(dir, <<Slash>>) /\ dir # <<>> THEN dir \o <<Slash>> ELSE dir

RECURSIVE ReadDirLoop(_, _, _, _, _, _)
\* the cursor loop of readDir: keys from position i, fis the entries so far
ReadDirLoop(b, keys, i, prefix, count, fis) ==
  IF i > Len(keys) THEN fis
  ELSE LET k == keys[i]
           rest == TrimPrefix(k, prefix)
           meta == decodeMeta(b[k])
           more == Append(fis, fileInfo(rest, meta.Size, meta.Mode, meta.ModTime,
                                        meta.IsDir))
       IN IF ~HasPrefix(k, prefix) THEN ReadDirLoop(b, keys, i + 1, prefix, count, fis)
          ELSE IF rest = <<>> \/ Contains(rest, Slash)
          THEN ReadDirLoop(b, keys, i + 1, prefix, count, fis)
          ELSE IF count > 0 /\ Len(more) >= count THEN more
          ELSE ReadDirLoop(b, keys, i + 1, prefix, count, more)

\* readDir that ignores the count limit
readDir_NoLimit(d, dir, count) ==
  [err |-> OK,
   infos |-> ReadDirLoop(d.files, CursorKeys(d.files), 1, DirPrefix(dir), 0, <<>>)]

readDir(d, dir, count) ==
  [err |-> OK,
   infos |-> ReadDirLoop(d.files, CursorKeys(d.files), 1, DirPrefix(dir), count, <<>>)]

\* the names of a listing, as Readdirnames collects them
InfoNames(infos) == [i \in 1..Len(infos) |-> infos[i].name]

(***************************************************************************)
(* bboltFile.  f is the handle; its buffer is the unread part of the       *)
(* bytes.Buffer, which is what Bytes() and Len() report.                   *)
(***************************************************************************)
SeekStart == 0
SeekCurrent == 1
SeekEnd == 2

\* File_Read that copies from the buffer without consuming it
File_Read_Keep(f, n) ==
  IF f.closed THEN [err |-> ErrClosed, out |-> <<>>, file |-> f]
  ELSE IF f.buffer = <<>>
  THEN [err |-> IF n = 0 THEN OK ELSE ErrEOF, out |-> <<>>, file |-> f]
  ELSE [err |-> OK, out |-> Take(f.buffer, n), file |-> f]

\* bytes.Buffer.Read into a slice of length n
File_Read(f, n) ==
  IF f.closed THEN [err |-> ErrClosed, out |-> <<>>, file |-> f]
  ELSE IF f.buffer = <<>>
  THEN [err |-> IF n = 0 THEN OK ELSE ErrEOF, out |-> <<>>, file |-> f]
  ELSE [err |-> OK, out |-> Take(f.buffer, n),
        file |-> [f EXCEPT !.buffer = Drop(f.buffer, n)]]

File_ReadAt(f, n, off) ==
  IF f.closed THEN [err |-> ErrClosed, out |-> <<>>, file |-> f]
  ELSE IF off >= Len(f.buffer) THEN [err |-> ErrEOF, out |-> <<>>, file |-> f]
  ELSE IF Take(Drop(f.buffer, off), n) = <<>>
  THEN [err |-> ErrEOF, out |-> <<>>, file |-> f]
  ELSE [err |-> OK, out |-> Take(Drop(f.buffer, off), n), file |-> f]

\* File_Seek without the closed check
File_Seek_Unchecked(f, offset, whence) ==
  LET abs == IF whence = SeekStart THEN offset ELSE Len(f.buffer) + offset
  IN IF whence \notin {SeekStart, SeekCurrent, SeekEnd}
     THEN [err |-> ErrWhence, pos |-> 0, file |-> f]
     ELSE IF abs < 0 THEN [err |-> ErrNegative, pos |-> 0, file |-> f]
     ELSE [err |-> OK, pos |-> abs, file |-> [f EXCEPT !.offset = abs]]

File_Seek(f, offset, whence) ==
  LET abs == IF whence = SeekStart THEN offset ELSE Len(f.buffer) + offset
  IN IF f.closed THEN [err |-> ErrClosed, pos |-> 0, file |-> f]
     ELSE IF whence \notin {SeekStart, SeekCurrent, SeekEnd}
     THEN [err |-> ErrWhence, pos |-> 0, file |-> f]
     ELSE IF abs < 0 THEN [err |-> ErrNegative, pos |-> 0, file |-> f]
     ELSE [err |-> OK, pos |-> abs, file |-> [f EXCEPT !.offset = abs]]

\* File_Write persisting only the bytes of this call
File_Write_Last(d, f, p, t) ==
  LET buf == f.buffer \o p
      meta == [f.meta EXCEPT !.Size = Len(buf), !.ModTime = t]
      s == saveFile(d, f.name, p, meta)
  IN IF f.closed THEN [err |-> ErrClosed, n |-> 0, db |-> d, file |-> f]
     ELSE [err |-> s.err, n |-> Len(p), db |-> s.db,
           file |-> [f EXCEPT !.buffer = buf, !.meta = meta]]

\* File_Write appending to the payload the store holds
File_Write_Merge(d, f, p, t) ==
  LET buf == loadFile(d, f.name).data \o p
      meta == [f.meta EXCEPT !.Size = Len(buf), !.ModTime = t]
      s == saveFile(d, f.name, buf, meta)
  IN IF f.closed THEN [err |-> ErrClosed, n |-> 0, db |-> d, file |-> f]
     ELSE [err |-> s.err, n |-> Len(p), db |-> s.db,
           file |-> [f EXCEPT !.buffer = buf, !.meta = meta]]

File_Write(d, f, p, t) ==
  LET buf == f.buffer \o p
      meta == [f.meta EXCEPT !.Size = Len(buf), !.ModTime = t]
      s == saveFile(d, f.name, buf, meta)
  IN IF f.closed THEN [err |-> ErrClosed, n |-> 0, db |-> d, file |-> f]
     ELSE [err |-> s.err, n |-> Len(p), db |-> s.db,
           file |-> [f EXCEPT !.buffer = buf, !.meta = meta]]

\* File_WriteAt leaving meta.Size as it was
File_WriteAt_StaleSize(d, f, p, off, t) ==
  LET buf == IF off > Len(f.buffer)
             THEN f.buffer \o Zeros(off - Len(f.buffer))
             ELSE f.buffer
      fit == Min(Len(p), Len(buf) - off)
      tmp == [i \in 1..Len(buf) |->
                IF i > off /\ i <= off + fit THEN p[i - off] ELSE buf[i]]
      meta == [f.meta EXCEPT !.ModTime = t]
      s == saveFile(d, f.name, tmp, meta)
  IN IF f.closed THEN [err |-> ErrClosed, n |-> 0, db |-> d, file |-> f]
     ELSE [err |-> s.err, n |-> Len(p), db |-> s.db,
           file |-> [f EXCEPT !.buffer = tmp, !.meta = meta]]

File_WriteAt(d, f, p, off, t) ==
  LET buf == IF off > Len(f.buffer)
             THEN f.buffer \o Zeros(off - Len(f.buffer))
             ELSE f.buffer
      \* copy(tmp[off:], p): as many bytes of p as fit in tmp after off
      fit == Min(Len(p), Len(buf) - off)
      tmp == [i \in 1..Len(buf) |->
                IF i > off /\ i <= off + fit THEN p[i - off] ELSE buf[i]]
      meta == [f.meta EXCEPT !.Size = Len(tmp), !.ModTime = t]
      s == saveFile(d, f.name, tmp, meta)
  IN IF f.closed THEN [err |-> ErrClosed, n |-> 0, db |-> d, file |-> f]
     ELSE [err |-> s.err, n |-> Len(p), db |-> s.db,
           file |-> [f EXCEPT !.buffer = tmp, !.meta = meta]]

File_WriteString(d, f, s, t) == File_Write(d, f, s, t)

File_Close(f) == [err |-> OK, file |-> [f EXCEPT !.closed = TRUE]]

File_Stat(f) ==
  [err |-> OK,
   info |-> fileInfo(Base(f.name), f.meta.Size, f.meta.Mode, f.meta.ModTime,
                     f.meta.IsDir)]

\* File_Truncate that shrinks but never pads
File_Truncate_NoPad(d, f, size, t) ==
  LET buf == IF size < Len(f.buffer) THEN SubSeq(f.buffer, 1, size) ELSE f.buffer
      meta == [f.meta EXCEPT !.Size = size, !.ModTime = t]
      s == saveFile(d, f.name, buf, meta)
  IN IF f.closed THEN [err |-> ErrClosed, db |-> d, file |-> f]
     ELSE [err |-> s.err, db |-> s.db,
           file |-> [f EXCEPT !.buffer = buf, !.meta = meta]]

\* File_Truncate that saves only over an entry that is still there
File_Truncate_IfPresent(d, f, size, t) ==
  LET buf == IF size < Len(f.buffer) THEN SubSeq(f.buffer, 1, size)
             ELSE IF size > Len(f.buffer)
             THEN f.buffer \o Zeros(size - Len(f.buffer))
             ELSE f.buffer
      meta == [f.meta EXCEPT !.Size = size, !.ModTime = t]
      s == IF f.name \in DOMAIN d.files THEN saveFile(d, f.name, buf, meta)
           ELSE [err |-> OK, db |-> d]
  IN IF f.closed THEN [err |-> ErrClosed, db |-> d, file |-> f]
     ELSE [err |-> s.err, db |-> s.db,
           file |-> [f EXCEPT !.buffer = buf, !.meta = meta]]

File_Truncate(d, f, size, t) ==
  LET buf == IF size < Len(f.buffer) THEN SubSeq(f.buffer, 1, size)
             ELSE IF size > Len(f.buffer)
             THEN f.buffer \o Zeros(size - Len(f.buffer))
             ELSE f.buffer
      meta == [f.meta EXCEPT !.Size = size, !.ModTime = t]
      s == saveFile(d, f.name, buf, meta)
  IN IF f.closed THEN [err |-> ErrClosed, db |-> d, file |-> f]
     ELSE [err |-> s.err, db |-> s.db,
           file |-> [f EXCEPT !.buffer = buf, !.meta = meta]]

(***************************************************************************)
(* bboltDirFile.                                                           *)
(***************************************************************************)
Dir_Read(f, n) == [err |-> ErrEOF, out |-> <<>>, file |-> f]

Dir_ReadAt(f, n, off) == [err |-> ErrEOF, out |-> <<>>, file |-> f]

Dir_Seek(f, offset, whence) == [err |-> ErrEOF, pos |-> 0, file |-> f]

\* Dir_Write that stores the bytes under the directory's name
Dir_Write_Store(d, f, p, t) ==
  LET s == saveFile(d, f.name, p, [f.meta EXCEPT !.Size = Len(p), !.ModTime = t])
  IN [err |-> s.err, n |-> Len(p), db |-> s.db, file |-> f]

Dir_Write(d, f, p, t) == [err |-> ErrInvalid, n |-> 0, db |-> d, file |-> f]

Dir_WriteAt(d, f, p, off, t) == [err |-> ErrInvalid, n |-> 0, db |-> d, file |-> f]

Dir_WriteString(d, f, s, t) == [err |-> ErrInvalid, n |-> 0, db |-> d, file |-> f]

Dir_Close(f) == [err |-> OK, file |-> f]

Dir_Stat(f) ==
  [err |-> OK, info |-> fileInfo(Base(f.name), 0, f.meta.Mode, f.meta.ModTime, TRUE)]

Dir_Truncate(d, f, size, t) == [err |-> ErrInvalid, db |-> d, file |-> f]

(***************************************************************************)
(* The arguments the operations are called with.                           *)
(***************************************************************************)
PathA == <<ChA>>
PathAB == <<ChA, ChB>>
PathA_B == <<ChA, Slash, ChB>>
PathASlash == <<ChA, Slash>>
PathA_BSlash == <<ChA, Slash, ChB, Slash>>
PathRootA == <<Slash, ChA>>
PathA_A == <<ChA, Slash, ChA>>
PathA_B_A == <<ChA, Slash, ChB, Slash, ChA>>

AllNames ==
  {PathA, PathAB, PathA_A, PathA_B, PathA_B_A, PathASlash, PathA_BSlash, PathRootA}

Perm0755 == FileMode(493, 0)
Perm0400 == FileMode(256, 0)
Whences == {SeekStart, SeekCurrent, SeekEnd, SeekEnd + 1}

(***************************************************************************)
(* State.                                                                  *)
(*   db       the two buckets of the bbolt database                        *)
(*   handles  the File values the caller holds, by slot                    *)
(*   now      time.Now().UnixNano()                                        *)
(*   last     the last call: its name, handle slot, arguments and results, *)
(*            and (pre) the handle's unread bytes before a call on a       *)
(*            handle, the path's payload before a call returning a handle, *)
(*            the keys of the files bucket before any other call; and      *)
(*            (gone) whether a call that saves a handle's buffer found the *)
(*            handle's path missing from the files bucket                  *)
(*   wlog     per path: the bytes written through the handle that Create   *)
(*            returned for it (held in slot h, 0 once closed and let go),  *)
(*            while nothing but that handle's Write and Close has touched  *)
(*            the handle or the key                                        *)
(*   rlog     per slot: for a handle Open returned on a key written that   *)
(*            way and closed, what was written and what Read has returned; *)
(*            live until the handle's first call other than Read, and kept *)
(*            (no longer live) until the handle's next call                *)
(*   renaming the Rename call that runs one transaction at a time: the     *)
(*            transactions done (pc), its arguments, and the payload and   *)
(*            metadata it loaded                                           *)
(*   changing the Chmod or Chtimes call that runs one transaction at a     *)
(*            time: the transactions done (pc: "loaded" after the load,    *)
(*            "done" once it returned), its arguments, the payload it      *)
(*            loaded, the metadata it saves, and (wrote) the payload last  *)
(*            stored under its path by a handle since the load             *)
(***************************************************************************)
VARIABLES db, handles, now, last, wlog, rlog, renaming, changing

vars == <<db, handles, now, last, wlog, rlog, renaming, changing>>

\* no Rename call is between two of its transactions
NoRename == [pc |-> "idle", old |-> <<>>, new |-> <<>>, data |-> <<>>, meta |-> ZeroMeta]

\* no Chmod or Chtimes call has run one transaction at a time
NoChange ==
  [pc |-> "idle", op |-> "", name |-> <<>>, arg |-> <<>>, data |-> <<>>,
   meta |-> ZeroMeta, wrote |-> <<>>]

Call(op, h, name, arg, err, out, pre) ==
  [op |-> op, h |-> h, name |-> name, arg |-> arg, err |-> err, out |-> out,
   pre |-> pre,
   gone |-> /\ op \in {"Write", "WriteString", "WriteAt", "Truncate"}
            /\ name \notin DOMAIN db.files]

NoWLog == [live |-> FALSE, h |-> 0, want |-> <<>>]

NoRLog == [live |-> FALSE, want |-> <<>>, got |-> <<>>]

FileValue(d, name) == IF name \in DOMAIN d.files THEN <<d.files[name]>> ELSE <<>>

\* the history variables follow the call just made (last', db', handles')
Track ==
  LET c == last'
      opening == c.op \in {"Create", "Open", "OpenFile"}
      opened == opening /\ c.err = OK
      same(x) == FileValue(db', x) = FileValue(db, x)
  IN /\ wlog' = [x \in AllNames |->
          IF c.op = "Create" /\ opened /\ c.name = x
          THEN [live |-> TRUE, h |-> c.h, want |-> <<>>]
          ELSE IF ~wlog[x].live THEN NoWLog
          ELSE IF c.h # wlog[x].h \/ (opening /\ ~opened)
          THEN IF same(x) THEN wlog[x] ELSE NoWLog
          ELSE IF opened
          THEN IF handles[c.h].closed /\ same(x) THEN [wlog[x] EXCEPT !.h = 0]
               ELSE NoWLog
          ELSE IF c.op \in {"Write", "WriteString"} /\ c.err = OK
          THEN [wlog[x] EXCEPT !.want = @ \o c.arg]
          ELSE IF c.op = "Close" THEN wlog[x]
          ELSE NoWLog]
     /\ rlog' = [h \in Handles |->
          IF opened /\ c.h = h
          THEN LET w == wlog[c.name]
               IN IF /\ c.op = "Open"
                     /\ handles'[h].kind = "file"
                     /\ w.live
                     /\ (w.h = 0 \/ handles[w.h].closed)
                  THEN [live |-> TRUE, want |-> w.want, got |-> <<>>]
                  ELSE NoRLog
          ELSE IF ~rlog[h].live THEN IF c.h = h THEN NoRLog ELSE rlog[h]
          ELSE IF c.h = h /\ ~opening
          THEN IF c.op = "Read" THEN [rlog[h] EXCEPT !.got = @ \o c.out]
               ELSE [rlog[h] EXCEPT !.live = FALSE]
          ELSE rlog[h]]

Init ==
  /\ db = [files |-> EmptyBucket, dirs |-> EmptyBucket]
  /\ handles = [h \in Handles |-> NoFile]
  /\ now = 0
  /\ last = Call("New", 0, <<>>, <<>>, OK, <<>>, <<>>)
  /\ wlog = [x \in AllNames |-> NoWLog]
  /\ rlog = [h \in Handles |-> NoRLog]
  /\ renaming = NoRename
  /\ changing = NoChange

\* a call on the path store that returns no handle
StoreCall(op, name, arg, r, out) ==
  /\ db' = r.db
  /\ UNCHANGED <<handles, now, renaming, changing>>
  /\ last' = Call(op, 0, name, arg, r.err, out, DOMAIN db.files)
  /\ Track

\* a call on the path store that returns a handle, kept in slot h on success
OpenCall(op, h, name, arg, r, d) ==
  /\ db' = d
  /\ handles' = IF r.err = OK THEN [handles EXCEPT ![h] = r.file] ELSE handles
  /\ UNCHANGED <<now, renaming, changing>>
  /\ last' = Call(op, h, name, arg, r.err, <<>>, loadFile(db, name).data)
  /\ Track

\* the Chmod or Chtimes call in progress after a call on the handle in slot
\* h: a payload the handle stored under the call's path is noted in wrote
Overlapped(op, h, r) ==
  IF /\ changing.pc = "loaded"
     /\ handles[h].kind = "file"
     /\ handles[h].name = changing.name
     /\ op \in {"Write", "WriteString", "WriteAt", "Truncate"}
     /\ r.err = OK
  THEN [changing EXCEPT !.wrote = <<r.file.buffer>>]
  ELSE changing

\* a call on the handle in slot h
HandleCall(op, h, arg, r, d, out) ==
  /\ db' = d
  /\ handles' = [handles EXCEPT ![h] = r.file]
  /\ UNCHANGED <<now, renaming>>
  /\ changing' = Overlapped(op, h, r)
  /\ last' = Call(op, h, handles[h].name, arg, r.err, out, handles[h].buffer)
  /\ Track

IsFile(h) == handles[h].kind = "file"

Held(h) == handles[h].kind # "nil"

(***************************************************************************)
(* The calls, each over the sets its arguments are drawn from.             *)
(***************************************************************************)
Tick ==
  /\ now < MaxTime
  /\ now' = now + 1
  /\ last' = Call("Tick", 0, <<>>, <<>>, OK, <<>>, <<>>)
  /\ UNCHANGED <<db, handles, renaming, changing>>
  /\ Track

\* Create by the callers that keep their handle in one of the slots hs
DoCreateIn(hs, names) ==
  \E name \in names, h \in hs :
    LET r == Create(db, name, now) IN OpenCall("Create", h, name, <<>>, r, r.db)

DoCreate(names) == DoCreateIn({1}, names)

DoMkdir(names) ==
  \E name \in names :
    StoreCall("Mkdir", name, Perm0755, Mkdir(db, name, Perm0755, now), <<>>)

DoMkdirAll(names) ==
  \E p \in names :
    StoreCall("MkdirAll", p, Perm0755, MkdirAll(db, p, Perm0755, now), <<>>)

DoOpenIn(hs, names) ==
  \E name \in names, h \in hs :
    OpenCall("Open", h, name, <<>>, Open(db, name), db)

DoOpen(names) == DoOpenIn({1}, names)

DoOpenFile(names, flags) ==
  \E name \in names, flag \in flags, h \in {1} :
    LET r == OpenFile(db, name, flag, Perm0755, now)
    IN OpenCall("OpenFile", h, name, flag, r, r.db)

DoRemove(names) ==
  \E name \in names : StoreCall("Remove", name, <<>>, Remove(db, name), <<>>)

DoRemoveAll(names) ==
  \E p \in names : StoreCall("RemoveAll", p, <<>>, RemoveAll(db, p), <<>>)

DoRename(olds, news) ==
  \E oldname \in olds, newname \in news :
    StoreCall("Rename", oldname, newname, Rename(db, oldname, newname), <<>>)

\* Rename one transaction at a time, other calls running in between.
\* The second transaction: fs.saveFile(newname, data, meta)
RenameSaveStep_DeleteFirst(d, r) == Remove(d, r.old)

RenameSaveStep(d, r) == saveFile(d, r.new, r.data, r.meta)

\* The third transaction: fs.Remove(oldname)
RenameRemoveStep(d, r) == Remove(d, r.old)

\* a step of the Rename call in progress: its position, the store and the
\* call's result once it returns (op "Rename"; "Rename.load" and "Rename.save"
\* while it goes on)
RenameCall(op, r, err, d) ==
  /\ db' = d
  /\ UNCHANGED <<handles, now, changing>>
  /\ last' = Call(op, 0, r.old, r.new, err, <<>>, DOMAIN db.files)
  /\ Track

\* The first transaction: fs.loadFile(oldname); an error ends the call
RenameLoad(olds, news) ==
  \E oldname \in olds, newname \in news :
    LET l == loadFile(db, oldname)
        r == [pc |-> "loaded", old |-> oldname, new |-> newname,
              data |-> l.data, meta |-> l.meta]
    IN /\ renaming.pc = "idle"
       /\ renaming' = IF l.err = OK THEN r ELSE NoRename
       /\ RenameCall(IF l.err = OK THEN "Rename.load" ELSE "Rename", r, l.err, db)

RenameSave ==
  LET s == RenameSaveStep(db, renaming)
  IN /\ renaming.pc = "loaded"
     /\ renaming' = IF s.err = OK THEN [renaming EXCEPT !.pc = "saved"] ELSE NoRename
     /\ RenameCall(IF s.err = OK THEN "Rename.save" ELSE "Rename", renaming, s.err, s.db)

RenameRemove ==
  LET s == RenameRemoveStep(db, renaming)
  IN /\ renaming.pc = "saved"
     /\ renaming' = NoRename
     /\ RenameCall("Rename", renaming, s.err, s.db)

\* Chmod and Chtimes one transaction at a time, other calls running in
\* between.  The second transaction: fs.saveFile(name, data, meta)
ChangeSaveStep_Reload(d, c) == saveFile(d, c.name, loadFile(d, c.name).data, c.meta)

ChangeSaveStep(d, c) == saveFile(d, c.name, c.data, c.meta)

\* a step of the Chmod or Chtimes call in progress: the store and the call's
\* result once it returns (op "Chmod" or "Chtimes"; "Chmod.load" and
\* "Chtimes.load" while it goes on)
ChangeCall(op, c, err, d) ==
  /\ db' = d
  /\ UNCHANGED <<handles, now, renaming>>
  /\ last' = Call(op, 0, c.name, c.arg, err, <<>>, DOMAIN db.files)
  /\ Track

\* Chmod's first transaction, fs.loadFile(name), and meta.Mode = mode; an
\* error ends the call
ChmodLoad(names, modes) ==
  \E name \in names, mode \in modes :
    LET l == loadFile(db, name)
        c == [pc |-> "loaded", op |-> "Chmod", name |-> name, arg |-> mode,
              data |-> l.data, meta |-> [l.meta EXCEPT !.Mode = mode],
              wrote |-> <<>>]
    IN /\ changing.pc # "loaded"
       /\ changing' = IF l.err = OK THEN c ELSE NoChange
       /\ ChangeCall(IF l.err = OK THEN "Chmod.load" ELSE "Chmod", c, l.err, db)

\* Chtimes' first transaction, fs.loadFile(name), and meta.ModTime = mtime
ChtimesLoad(names, times) ==
  \E name \in names, mtime \in times :
    LET l == loadFile(db, name)
        c == [pc |-> "loaded", op |-> "Chtimes", name |-> name, arg |-> mtime,
              data |-> l.data, meta |-> [l.meta EXCEPT !.ModTime = mtime],
              wrote |-> <<>>]
    IN /\ changing.pc # "loaded"
       /\ changing' = IF l.err = OK THEN c ELSE NoChange
       /\ ChangeCall(IF l.err = OK THEN "Chtimes.load" ELSE "Chtimes", c, l.err, db)

ChangeSave ==
  LET s == ChangeSaveStep(db, changing)
  IN /\ changing.pc = "loaded"
     /\ changing' = [changing EXCEPT !.pc = "done"]
     /\ ChangeCall(changing.op, changing, s.err, s.db)

DoStat(names) ==
  \E name \in names :
    LET r == Stat(db, name)
    IN StoreCall("Stat", name, <<>>, [err |-> r.err, db |-> db], r.info)

DoChmod(names, modes) ==
  \E name \in names, mode \in modes :
    StoreCall("Chmod", name, mode, Chmod(db, name, mode), <<>>)

DoChown(names) ==
  \E name \in names : StoreCall("Chown", name, <<>>, Chown(db, name, 0, 0), <<>>)

DoChtimes(names, times) ==
  \E name \in names, mtime \in times :
    StoreCall("Chtimes", name, mtime, Chtimes(db, name, mtime, mtime), <<>>)

DoRead(sizes) ==
  \E h \in Handles, n \in sizes :
    /\ Held(h)
    /\ LET r == IF IsFile(h) THEN File_Read(handles[h], n) ELSE Dir_Read(handles[h], n)
       IN HandleCall("Read", h, n, r, db, r.out)

DoReadAt(sizes, offs) ==
  \E h \in Handles, n \in sizes, off \in offs :
    /\ Held(h)
    /\ LET r == IF IsFile(h) THEN File_ReadAt(handles[h], n, off)
                ELSE Dir_ReadAt(handles[h], n, off)
       IN HandleCall("ReadAt", h, <<n, off>>, r, db, r.out)

DoSeek(offs, whences) ==
  \E h \in Handles, offset \in offs, whence \in whences :
    /\ Held(h)
    /\ LET r == IF IsFile(h) THEN File_Seek(handles[h], offset, whence)
                ELSE Dir_Seek(handles[h], offset, whence)
       IN HandleCall("Seek", h, <<offset, whence>>, r, db, r.pos)

DoWrite(args) ==
  \E h \in Handles, p \in args :
    /\ Held(h)
    /\ handles[h].closed \/ Len(handles[h].buffer) + Len(p) <= MaxLen
    /\ LET r == IF IsFile(h) THEN File_Write(db, handles[h], p, now)
                ELSE Dir_Write(db, handles[h], p, now)
       IN HandleCall("Write", h, p, r, r.db, r.n)

DoWriteAt(args, offs) ==
  \E h \in Handles, p \in args, off \in offs :
    /\ Held(h)
    /\ LET r == IF IsFile(h) THEN File_WriteAt(db, handles[h], p, off, now)
                ELSE Dir_WriteAt(db, handles[h], p, off, now)
       IN HandleCall("WriteAt", h, <<p, off>>, r, r.db, r.n)

DoWriteString(args) ==
  \E h \in Handles, s \in args :
    /\ Held(h)
    /\ handles[h].closed \/ Len(handles[h].buffer) + Len(s) <= MaxLen
    /\ LET r == IF IsFile(h) THEN File_WriteString(db, handles[h], s, now)
                ELSE Dir_WriteString(db, handles[h], s, now)
       IN HandleCall("WriteString", h, s, r, r.db, r.n)

DoClose ==
  \E h \in Handles :
    /\ Held(h)
    /\ LET r == IF IsFile(h) THEN File_Close(handles[h]) ELSE Dir_Close(handles[h])
       IN HandleCall("Close", h, <<>>, r, db, <<>>)

DoFileStat ==
  \E h \in Handles :
    /\ Held(h)
    /\ LET r == IF IsFile(h) THEN File_Stat(handles[h]) ELSE Dir_Stat(handles[h])
       IN HandleCall("File.Stat", h, <<>>, [err |-> r.err, file |-> handles[h]], db,
                     r.info)

DoTruncate(sizes) ==
  \E h \in Handles, size \in sizes :
    /\ Held(h)
    /\ LET r == IF IsFile(h) THEN File_Truncate(db, handles[h], size, now)
                ELSE Dir_Truncate(db, handles[h], size, now)
       IN HandleCall("Truncate", h, size, r, r.db, <<>>)

DoReaddir(counts) ==
  \E h \in Handles, count \in counts :
    /\ Held(h)
    /\ LET r == readDir(db, handles[h].name, count)
       IN HandleCall("Readdir", h, count, [err |-> r.err, file |-> handles[h]], db,
                     r.infos)

DoReaddirnames(counts) ==
  \E h \in Handles, n \in counts :
    /\ Held(h)
    /\ LET r == readDir(db, handles[h].name, n)
       IN HandleCall("Readdirnames", h, n, [err |-> r.err, file |-> handles[h]], db,
                     InfoNames(r.infos))

(***************************************************************************)
(* SpecFile: one path, every method of the file handle.                    *)
(***************************************************************************)
FileArgs == BytesOfLen(1, MaxLen)
OpenFlags == {O_RDONLY, O_WRONLY, O_RDWR, O_CREATE, O_APPEND}

NextFile ==
  \/ DoCreate({PathA})
  \/ DoOpen({PathA})
  \/ DoOpenFile({PathA}, OpenFlags)
  \/ DoRemove({PathA})
  \/ DoRead(0..MaxLen)
  \/ DoReadAt(0..MaxLen, 0..MaxLen)
  \/ DoSeek(-1..1, Whences)
  \/ DoWrite(FileArgs)
  \/ DoWriteAt(FileArgs, 0..MaxLen)
  \/ DoWriteString({<<1>>})
  \/ DoClose
  \/ DoFileStat
  \/ DoTruncate(0..MaxLen)

SpecFile == Init /\ [][NextFile]_vars

(***************************************************************************)
(* SpecStore: the path store over nested paths: files "ab", "a/a", "a/b"   *)
(* and "a/b/a", directories "a", "a/" and "a/b".                           *)
(***************************************************************************)
StoreFiles == {PathAB, PathA_A, PathA_B, PathA_B_A}
Counts == -1..MaxLen

NextStore ==
  \/ DoCreate(StoreFiles)
  \/ DoMkdir({PathA, PathASlash})
  \/ DoMkdirAll({PathA_B, PathA_BSlash, PathRootA})
  \/ DoOpen({PathA, PathASlash, PathA_B})
  \/ DoRemove({PathA, PathA_B})
  \/ DoRemoveAll({PathA, PathASlash, PathA_B, PathAB})
  \/ DoStat({PathA, PathA_B, PathA_BSlash})
  \/ DoChmod({PathA_A, PathA_B}, {Perm0400})
  \/ DoReaddir(Counts)
  \/ DoReaddirnames(Counts)

SpecStore == Init /\ [][NextStore]_vars

(***************************************************************************)
(* SpecMeta: two paths whose payload, mode and modification time vary:     *)
(* metadata updates and renaming.                                          *)
(***************************************************************************)
MetaNames == {PathA, PathAB}
ChmodModes == {Perm0400, OrModeDir(Perm0755)}

NextMeta ==
  \/ DoCreate(MetaNames)
  \/ DoMkdir({PathA})
  \/ DoOpen(MetaNames)
  \/ DoRename(MetaNames, MetaNames)
  \/ DoStat(MetaNames)
  \/ DoChmod(MetaNames, ChmodModes)
  \/ DoChown({PathA})
  \/ DoChtimes(MetaNames, Times)
  \/ DoWrite({<<1, 1>>})

SpecMeta == Init /\ [][NextMeta]_vars

(***************************************************************************)
(* SpecDir: a directory "a" and a file "ab", and every method of the       *)
(* handles Open returns for them.                                          *)
(***************************************************************************)
NextDir ==
  \/ DoMkdir({PathA})
  \/ DoCreate({PathAB})
  \/ DoOpen({PathA, PathAB})
  \/ DoRead({0, 1})
  \/ DoReadAt({1}, {0})
  \/ DoSeek({0, 1}, {SeekStart, SeekEnd})
  \/ DoWrite({<<1>>})
  \/ DoWriteAt({<<1>>}, {0})
  \/ DoWriteString({<<1>>})
  \/ DoTruncate({0, 1})
  \/ DoClose

SpecDir == Init /\ [][NextDir]_vars

(***************************************************************************)
(* SpecShare: two callers, each holding a handle on the one path "a".      *)
(***************************************************************************)
NextShare ==
  \/ DoCreateIn(Handles, {PathA})
  \/ DoOpenIn(Handles, {PathA})
  \/ DoRead({1})
  \/ DoWrite({<<0>>, <<1>>})
  \/ DoWriteAt({<<1>>}, {0, 2})
  \/ DoTruncate({0, 1})

SpecShare == Init /\ [][NextShare]_vars

(***************************************************************************)
(* SpecSize: every call that writes an entry of the files bucket, on the   *)
(* paths "a" and "ab".                                                     *)
(***************************************************************************)
NextSize ==
  \/ DoCreate({PathA})
  \/ DoOpen({PathA, PathAB})
  \/ DoRead({1})
  \/ DoWrite({<<0>>, <<1>>})
  \/ DoWriteAt({<<1>>}, {0, 2})
  \/ DoTruncate({0, 1})
  \/ DoFileStat
  \/ DoChmod({PathA}, {Perm0400})
  \/ DoChtimes({PathA}, {1})
  \/ DoRename({PathA, PathAB}, {PathA, PathAB})
  \/ DoRemove({PathA})

SpecSize == Init /\ [][NextSize]_vars

(***************************************************************************)
(* SpecRename: Rename between "a/a" and "a/b" one transaction at a time,   *)
(* with Stat, Open and Readdir on directory "a" running in between; the    *)
(* calls that write the two paths run only while no Rename is in progress. *)
(***************************************************************************)
RenamePaths == {PathA_A, PathA_B}

NextRename ==
  \/ renaming.pc = "idle" /\ DoCreate(RenamePaths)
  \/ renaming.pc = "idle" /\ DoWrite({<<1>>})
  \/ renaming.pc = "idle" /\ DoChmod({PathA_A}, {Perm0400})
  \/ DoMkdir({PathA})
  \/ RenameLoad(RenamePaths, RenamePaths)
  \/ RenameSave
  \/ RenameRemove
  \/ DoStat(RenamePaths)
  \/ DoOpen(RenamePaths \cup {PathA})
  \/ DoReaddirnames({0})

SpecRename == Init /\ [][NextRename]_vars

(***************************************************************************)
(* SpecGone: a handle on "a/a" that stays open while the path is removed,  *)
(* removed with its directory, or renamed to "a/b".                        *)
(***************************************************************************)
NextGone ==
  \/ DoCreate({PathA_A})
  \/ DoOpen({PathA_A})
  \/ DoRemove({PathA_A})
  \/ DoRemoveAll({PathA})
  \/ DoRename({PathA_A}, {PathA_B})
  \/ DoChmod({PathA_A}, {Perm0400})
  \/ DoRead({1})
  \/ DoWrite({<<1>>})
  \/ DoWriteString({<<0>>})
  \/ DoWriteAt({<<1>>}, {0, 1})
  \/ DoTruncate({0, 1})
  \/ DoClose
  \/ Tick

SpecGone == Init /\ [][NextGone]_vars

(***************************************************************************)
(* SpecChange: Chmod and Chtimes on "a" one transaction at a time, with    *)
(* the calls of a handle on "a" running in between.                        *)
(***************************************************************************)
NextChange ==
  \/ DoCreate({PathA})
  \/ DoOpen({PathA})
  \/ DoWrite({<<1>>})
  \/ DoTruncate({0, 1})
  \/ DoClose
  \/ ChmodLoad({PathA}, {Perm0400})
  \/ ChtimesLoad({PathA}, {1})
  \/ ChangeSave
  \/ Tick

SpecChange == Init /\ [][NextChange]_vars

(***************************************************************************)
(* Spec: every call, over all the argument sets above.                     *)
(***************************************************************************)
Next ==
  \/ Tick
  \/ NextFile
  \/ NextStore
  \/ NextMeta
  \/ NextDir
  \/ NextShare
  \/ NextSize
  \/ NextRename
  \/ NextGone
  \/ NextChange

Spec == Init /\ [][Next]_vars

(***************************************************************************)
(* Claims checked under SpecFile.                                          *)
(***************************************************************************)

\* C1: after Create(p), Write(b1)..Write(bk) on the returned handle and Close,
\* the key p holds exactly b1..bk, and a handle that Open(p) then returns
\* reads back exactly b1..bk: what its Reads have returned so far, followed
\* by what is still unread, is the concatenation of the bytes written.
C1_WriteReopenRoundTrip ==
  /\ \A x \in AllNames :
       wlog[x].live =>
         /\ loadFile(db, x).err = OK
         /\ loadFile(db, x).data = wlog[x].want
  /\ \A h \in Handles :
       rlog[h].live =>
         /\ rlog[h].got \o handles[h].buffer = rlog[h].want
         /\ (last.op = "Read" /\ last.h = h /\ last.err = ErrEOF)
              => rlog[h].got = rlog[h].want

\* two bytes were written, the handle closed, the path reopened and read to the end
C1_Witness ==
  \E h \in Handles :
    /\ rlog[h].live
    /\ Len(rlog[h].want) = 2
    /\ rlog[h].got = rlog[h].want
    /\ last.op = "Read"
    /\ last.h = h

\* the content the claim expects after Truncate(n) of content c
Truncated(c, n) == IF n < Len(c) THEN SubSeq(c, 1, n) ELSE c \o Zeros(n - Len(c))

BufferCalls == {"Read", "ReadAt", "Seek", "Write", "WriteAt", "WriteString", "Truncate"}

\* C10: on a closed file handle every Read, ReadAt, Seek, Write, WriteAt,
\* WriteString and Truncate returns os.ErrClosed and changes neither the store
\* nor the handle; the handle stays closed; and Close itself leaves the store
\* as it is.
C10_ClosedHandle ==
  [][\A h \in Handles :
       /\ (IsFile(h) /\ handles[h].closed /\ last'.h = h /\ last'.op \in BufferCalls)
            => /\ last'.err = ErrClosed
               /\ db' = db
               /\ handles'[h] = handles[h]
       /\ (last'.op = "Close" /\ last'.h = h)
            => /\ db' = db
               /\ IsFile(h) => handles'[h] = [handles[h] EXCEPT !.closed = TRUE]]_vars

\* a Write on a closed handle was refused while the store keeps what was persisted
C10_Witness ==
  /\ last.op = "Write"
  /\ last.err = ErrClosed
  /\ handles[last.h].closed
  /\ loadFile(db, last.name).err = OK
  /\ loadFile(db, last.name).data # <<>>

WrittenAt(c, b, off) ==
  LET base == IF off > Len(c) THEN c \o Zeros(off - Len(c)) ELSE c
      n == IF off + Len(b) > Len(base) THEN off + Len(b) ELSE Len(base)
  IN [i \in 1..n |-> IF i > off /\ i <= off + Len(b) THEN b[i - off] ELSE base[i]]

\* C12: after a successful WriteAt(b, off) on a file handle with content c, the
\* store holds c zero-padded up to off and overwritten by b from off on,
\* extended where off + Len(b) exceeds its length, and the count returned,
\* Len(b), is the number of bytes of b present in the stored content.
C12_WriteAtExtends ==
  (last.op = "WriteAt" /\ last.err = OK) =>
    LET b == last.arg[1]
        off == last.arg[2]
        stored == loadFile(db, last.name).data
    IN /\ stored = WrittenAt(last.pre, b, off)
       /\ Len(stored) = IF Len(last.pre) > off + Len(b) THEN Len(last.pre)
                        ELSE off + Len(b)
       /\ last.out = Len(b)
       /\ SubSeq(stored, off + 1, off + last.out) = b

\* C13: Seek on an open file handle computes the position from the start or
\* the end of the content, rejects a negative position leaving the position
\* unchanged, and never resizes the content; and the Write(b) that follows a
\* successful Seek to position k stores b at offset k of the content,
\* zero-filling the gap when k is beyond the end.
C13_SeekThenWrite ==
  [][\A h \in Handles :
       (IsFile(h) /\ ~handles[h].closed /\ last'.h = h) =>
         /\ last'.op = "Seek" =>
              LET offset == last'.arg[1]
                  whence == last'.arg[2]
                  abs == IF whence = SeekStart THEN offset
                         ELSE Len(handles[h].buffer) + offset
              IN /\ handles'[h].buffer = handles[h].buffer
                 /\ db' = db
                 /\ (whence \in {SeekStart, SeekEnd}) =>
                      IF abs < 0
                      THEN /\ last'.err # OK
                           /\ handles'[h].offset = handles[h].offset
                      ELSE /\ last'.err = OK
                           /\ last'.out = abs
                           /\ handles'[h].offset = abs
         /\ (/\ last'.op = "Write"
             /\ last'.err = OK
             /\ last.op = "Seek"
             /\ last.h = h
             /\ last.err = OK) =>
              loadFile(db', last'.name).data =
                WrittenAt(handles[h].buffer, last'.arg, last.out)]_vars

\* the call just made on the handle in slot h is its first call other than
\* Read since Open returned it with the content rlog[h].want
FirstAfterReads(h) == last.h = h /\ ~rlog[h].live /\ rlog[h].want # <<>>

\* C14: ReadAt(n bytes, off) on a file handle opened with content c returns the
\* bytes of c from offset off on, however many bytes Read has consumed, and
\* end-of-data when off is at or beyond Len(c); it leaves what the next Read
\* returns as it was.
C14_ReadAtAbsolute ==
  \A h \in Handles :
    (FirstAfterReads(h) /\ last.op = "ReadAt") =>
      LET c == rlog[h].want
          n == last.arg[1]
          off == last.arg[2]
      IN /\ handles[h].buffer = Drop(c, Len(rlog[h].got))
         /\ (off >= Len(c)) => last.err = ErrEOF
         /\ (off < Len(c) /\ n > 0) =>
              /\ last.err = OK
              /\ last.out = Take(Drop(c, off), n)

\* C19: on a handle Open returned with content c, after Read has consumed the
\* first r bytes, Write(b) stores c[r:] followed by b, Truncate(n) stores
\* c[r:] cut or zero-padded to n bytes, and WriteAt leaves every byte of c[r:]
\* it does not overwrite where it was in c[r:]: the r bytes read are gone from
\* the stored file.
C19_ReadPrefixDropped ==
  \A h \in Handles :
    (FirstAfterReads(h) /\ last.err = OK) =>
      LET c == rlog[h].want
          r == Len(rlog[h].got)
          rest == Drop(c, r)
          stored == loadFile(db, last.name).data
      IN /\ rlog[h].got = Take(c, r)
         /\ (last.op \in {"Write", "WriteString"}) => stored = rest \o last.arg
         /\ (last.op = "Truncate") => stored = Truncated(rest, last.arg)
         /\ (last.op = "WriteAt") =>
              /\ Len(stored) >= Len(rest)
              /\ \A i \in 1..Len(rest) :
                   (i <= last.arg[2] \/ i > last.arg[2] + Len(last.arg[1]))
                     => stored[i] = rest[i]

\* one byte of a two-byte file was read, then a byte written through the same
\* handle: the stored file is the unread byte followed by the written byte
C19_Witness ==
  \E h \in Handles :
    /\ FirstAfterReads(h)
    /\ last.op = "Write"
    /\ last.err = OK
    /\ Len(rlog[h].want) = 2
    /\ Len(rlog[h].got) = 1
    /\ loadFile(db, last.name).data = <<rlog[h].want[2]>> \o last.arg
    /\ loadFile(db, last.name).data # rlog[h].want \o last.arg

(***************************************************************************)
(* Claims checked under SpecMeta.                                          *)
(***************************************************************************)

\* C3: after a successful Rename(old, new) of an existing file old, Open(old)
\* fails with not-found and Open(new) returns a file handle with the content
\* and metadata old held immediately before the call.
C3_RenameMoves ==
  [][(last'.op = "Rename" /\ last'.err = OK) =>
       LET old == last'.name
           new == last'.arg
           before == loadFile(db, old)
           o == Open(db', old)
           n == Open(db', new)
       IN /\ before.err = OK
          /\ o.err = ErrNotExist
          /\ n.err = OK
          /\ n.file = bboltFile(new, before.meta, before.data)]_vars

\* C8: after a successful Chmod(p, m), Stat(p) reports m's permission bits,
\* and p's payload, size and modification time, every other key of the files
\* bucket and the whole dirs bucket are what they were before.
C8_ChmodOnlyMode ==
  [][(last'.op = "Chmod" /\ last'.err = OK) =>
       LET p == last'.name
           m == last'.arg
           before == loadFile(db, p)
           after == loadFile(db', p)
           st == Stat(db', p)
       IN /\ before.err = OK
          /\ st.err = OK
          /\ Perm(st.info.mode) = Perm(m)
          /\ after.data = before.data
          /\ after.meta.Size = before.meta.Size
          /\ after.meta.ModTime = before.meta.ModTime
          /\ st.info.size = before.meta.Size
          /\ st.info.modTime = before.meta.ModTime
          /\ DOMAIN db'.files = DOMAIN db.files
          /\ \A k \in DOMAIN db.files \ {p} : db'.files[k] = db.files[k]
          /\ db'.dirs = db.dirs]_vars

\* the mode of a file with bytes and a set modification time was changed,
\* beside another file
C8_Witness ==
  /\ last.op = "Chmod"
  /\ last.err = OK
  /\ last.arg = Perm0400
  /\ loadFile(db, last.name).data # <<>>
  /\ loadFile(db, last.name).meta.ModTime = 1
  /\ loadFile(db, last.name).meta.Mode = Perm0400
  /\ DOMAIN db.files # {last.name}

\* C20: Rename(p, p) on an existing file returns success and deletes the file:
\* afterwards p is not a key of the files bucket, and Open(p) and Stat(p) fail
\* with not-found.
C20_RenameSelfDeletes ==
  [][(/\ last'.op = "Rename"
      /\ last'.name = last'.arg
      /\ last'.name \in DOMAIN db.files) =>
       /\ last'.err = OK
       /\ last'.name \notin DOMAIN db'.files
       /\ Open(db', last'.name).err = ErrNotExist
       /\ Stat(db', last'.name).err = ErrNotExist]_vars

(***************************************************************************)
(* Claims checked under SpecStore.                                         *)
(***************************************************************************)

\* C4: RemoveAll(p) returns success, deletes from the files bucket every key
\* that has p as a bytewise prefix and no other, leaving the others their
\* values, and Open on every deleted key then fails with not-found.
C4_RemoveAllPrefix ==
  [][last'.op = "RemoveAll" =>
       LET p == last'.name
       IN /\ last'.err = OK
          /\ DOMAIN db'.files = {k \in DOMAIN db.files : ~HasPrefix(k, p)}
          /\ \A k \in DOMAIN db'.files : db'.files[k] = db.files[k]
          /\ \A k \in DOMAIN db.files :
               HasPrefix(k, p) => Open(db', k).err = ErrNotExist]_vars

\* the cumulative joins of the segments of p: "a", "a/b", ...
Cumulative(p) ==
  {SubSeq(p, 1, i) : i \in {j \in 1..Len(p) : j = Len(p) \/ p[j + 1] = Slash}}

\* C5: after a successful MkdirAll(p), Stat of p and of every cumulative join
\* of its segments succeeds and reports a directory.
C5_MkdirAllStat ==
  (last.op = "MkdirAll" /\ last.err = OK) =>
    \A q \in Cumulative(last.name) \cup {last.name} :
      /\ Stat(db, q).err = OK
      /\ Stat(db, q).info.isDir

\* C6: Remove(p) returns success and deletes the key p from the files bucket
\* and nothing else: Open(p) returns no file handle, every other file key
\* keeps its value, the dirs bucket is unchanged, and when p was not a file key
\* nothing changes.
C6_RemoveExact ==
  [][last'.op = "Remove" =>
       LET p == last'.name
       IN /\ last'.err = OK
          /\ DOMAIN db'.files = DOMAIN db.files \ {p}
          /\ \A k \in DOMAIN db'.files : db'.files[k] = db.files[k]
          /\ Open(db', p).file.kind # "file"
          /\ db'.dirs = db.dirs
          /\ (p \notin DOMAIN db.files) => db' = db]_vars

\* a file was removed whose path is also a directory entry, beside other files
C6_Witness ==
  /\ last.op = "Remove"
  /\ last.name \in last.pre
  /\ last.name \in DOMAIN db.dirs
  /\ last.name \notin DOMAIN db.files
  /\ DOMAIN db.files # {}

\* the names of the children of a directory whose scan prefix is prefix: the
\* file keys that extend the prefix by a non-empty, separator-free remainder,
\* in key order
ChildNames(d, prefix) ==
  LET kids == {k \in DOMAIN d.files :
                 /\ HasPrefix(k, prefix)
                 /\ k # prefix
                 /\ ~Contains(Drop(k, Len(prefix)), Slash)}
      sorted == SortKeys(kids)
  IN [i \in 1..Len(sorted) |-> Drop(sorted[i], Len(prefix))]

FirstN(names, count) == IF count > 0 THEN Take(names, count) ELSE names

Listed == IF last.op = "Readdir" THEN InfoNames(last.out) ELSE last.out

\* C7 as amended: Readdir(count) and Readdirnames(count) on a handle named D
\* list, in key order, the file keys that extend D + "/" (D itself when D ends
\* with "/") by a separator-free remainder, named by that remainder: the first
\* min(count, number of them) when count > 0, all of them otherwise.
C7_ReaddirChildren ==
  (last.op \in {"Readdir", "Readdirnames"}) =>
    LET D == last.name
        prefix == IF HasSuffix(D, <<Slash>>) THEN D ELSE D \o <<Slash>>
    IN /\ last.err = OK
       /\ Listed = FirstN(ChildNames(db, prefix), last.arg)

\* C7 as stated: the children are the keys that extend D + "/".
C7_Original ==
  (last.op \in {"Readdir", "Readdirnames"}) =>
    /\ last.err = OK
    /\ Listed = FirstN(ChildNames(db, last.name \o <<Slash>>), last.arg)

\* Readdir(1) on directory "a" listed the first of two children, with a deeper
\* file and a subdirectory entry present
C7_Witness ==
  /\ last.op = "Readdir"
  /\ last.name = PathA
  /\ handles[last.h].kind = "dir"
  /\ last.arg = 1
  /\ {PathA_A, PathA_B, PathA_B_A} \subseteq DOMAIN db.files
  /\ PathA_B \in DOMAIN db.dirs
  /\ InfoNames(last.out) = <<<<ChA>>>>

C11_DirHandleRejects ==
  [][\A h \in Handles :
       (handles[h].kind = "dir" /\ last'.h = h) =>
         /\ (last'.op \in {"Write", "WriteAt", "WriteString", "Truncate"}) =>
              /\ last'.err = ErrInvalid
              /\ db' = db
              /\ handles' = handles
         /\ (last'.op \in {"Read", "ReadAt", "Seek"}) =>
              /\ last'.err = ErrEOF
              /\ db' = db
              /\ handles' = handles]_vars

\* C11 as stated: on a directory handle each of Write, WriteAt, Truncate, Seek
\* and Read returns the invalid-operation error and changes no stored state.
C11_Original ==
  [][\A h \in Handles :
       (/\ handles[h].kind = "dir"
        /\ last'.h = h
        /\ last'.op \in {"Write", "WriteAt", "Truncate", "Seek", "Read"}) =>
         /\ last'.err = ErrInvalid
         /\ db' = db]_vars

\* Truncate was refused on a handle for a path that is only a directory entry,
\* with a file in the store
C11_Witness ==
  /\ last.op = "Truncate"
  /\ last.err = ErrInvalid
  /\ handles[last.h].kind = "dir"
  /\ last.name \in DOMAIN db.dirs
  /\ last.name \notin DOMAIN db.files
  /\ PathAB \in DOMAIN db.files

(***************************************************************************)
(* Claims checked under SpecShare.                                         *)
(***************************************************************************)

Persisting == {"Write", "WriteString", "WriteAt", "Truncate"}

\* C15: with two handles open on the same path, after each successful Write,
\* WriteAt or Truncate the stored payload is the whole buffer of the handle
\* that made the call, a buffer built from that handle's own content alone
\* (for Write: its content before the call followed by the bytes written),
\* and the call leaves the other handle as it was.
C15_PrivateBuffers ==
  [][\A h \in Handles :
       (/\ IsFile(h)
        /\ last'.h = h
        /\ last'.op \in Persisting
        /\ last'.err = OK) =>
         /\ loadFile(db', last'.name).data = handles'[h].buffer
         /\ (last'.op = "Write") => handles'[h].buffer = handles[h].buffer \o last'.arg
         /\ (last'.op = "Truncate") =>
              handles'[h].buffer = Truncated(handles[h].buffer, last'.arg)
         /\ \A g \in Handles \ {h} : handles'[g] = handles[g]]_vars

\* two handles on one path: one holds the byte 0, the other, empty until now,
\* has just written the byte 1, and the store holds the byte 1 alone
C15_Witness ==
  \E h, g \in Handles :
    /\ h # g
    /\ handles[h].kind = "file"
    /\ handles[g].kind = "file"
    /\ handles[h].name = handles[g].name
    /\ last.op = "Write"
    /\ last.h = h
    /\ last.err = OK
    /\ last.pre = <<>>
    /\ last.arg = <<1>>
    /\ handles[g].buffer = <<0>>
    /\ handles[g].meta.Size = 1
    /\ loadFile(db, last.name).data = <<1>>

(***************************************************************************)
(* Claims checked under SpecSize.                                          *)
(***************************************************************************)

\* the size a handle's Stat reports
StatSize(f) == File_Stat(f).info.size

C16_RenameSteps ==
  LET r == renaming
      old == loadFile(db, r.old)
      new == loadFile(db, r.new)
      both == {Base(r.old), Base(r.new)}
  IN /\ (r.pc # "idle" /\ r.old # r.new) =>
          /\ r.old \in DOMAIN db.files \/ r.new \in DOMAIN db.files
          /\ old.err = OK /\ old.data = r.data /\ old.meta = r.meta
          /\ (r.pc = "saved") =>
               /\ new.err = OK /\ new.data = r.data /\ new.meta = r.meta
               /\ Stat(db, r.old).err = OK
               /\ Stat(db, r.new).err = OK
               /\ Stat(db, r.old).info.size = Stat(db, r.new).info.size
               /\ Open(db, r.old).file.buffer = r.data
               /\ Open(db, r.new).file.buffer = r.data
               /\ (last.op = "Stat" /\ last.name \in {r.old, r.new}) =>
                    last.err = OK /\ last.out.size = Len(r.data)
               /\ (last.op = "Readdirnames" /\ last.name = PathA) =>
                    both \subseteq {last.out[i] : i \in 1..Len(last.out)}
     /\ (last.op = "Rename" /\ last.err = OK /\ last.name # last.arg) =>
          /\ last.name \notin DOMAIN db.files
          /\ last.arg \in DOMAIN db.files

\* between the save and the delete of a Rename of a two-byte file, a listing
\* of directory "a" returned both names
C16_Witness ==
  /\ renaming.pc = "saved"
  /\ renaming.old # renaming.new
  /\ Len(renaming.data) = 2
  /\ last.op = "Readdirnames"
  /\ last.name = PathA
  /\ Len(last.out) = 2

(***************************************************************************)
(* Claims checked under SpecGone.                                          *)
(***************************************************************************)

\* C21: a Write, WriteString, WriteAt or Truncate on an open file handle whose
\* path is no longer a key of the files bucket returns success and puts the
\* key back: the entry holds the handle's buffer and the handle's metadata
\* (the mode and directory flag the handle had, the size and time set by the
\* call), and no other key of either bucket changes.
C21_WriteRecreates ==
  [][\A h \in Handles :
       (/\ IsFile(h)
        /\ ~handles[h].closed
        /\ handles[h].name \notin DOMAIN db.files
        /\ last'.h = h
        /\ last'.op \in Persisting) =>
         /\ last'.err = OK
         /\ last'.name = handles[h].name
         /\ loadFile(db', last'.name) =
              [err |-> OK, data |-> handles'[h].buffer, meta |-> handles'[h].meta]
         /\ handles'[h].meta.Mode = handles[h].meta.Mode
         /\ handles'[h].meta.IsDir = handles[h].meta.IsDir
         /\ handles'[h].meta.Size = Len(handles'[h].buffer)
         /\ DOMAIN db'.files = DOMAIN db.files \cup {last'.name}
         /\ \A k \in DOMAIN db.files : db'.files[k] = db.files[k]
         /\ db'.dirs = db.dirs]_vars

\* "a/a" was changed to mode 0400 and renamed to "a/b" while its handle, which
\* had written one byte, stayed open; the handle's next Write put "a/a" back
\* with both bytes and the mode the handle was created with
C21_Witness ==
  /\ last.op = "Write"
  /\ last.gone
  /\ last.err = OK
  /\ last.name = PathA_A
  /\ last.pre = <<1>>
  /\ handles[last.h].kind = "file"
  /\ loadFile(db, PathA_A).data = <<1, 1>>
  /\ loadFile(db, PathA_A).meta.Mode = FileMode(DefaultPerm, 0)
  /\ PathA_B \in DOMAIN db.files
  /\ loadFile(db, PathA_B).data = <<1>>
  /\ loadFile(db, PathA_B).meta.Mode = Perm0400

(***************************************************************************)
(* Claims checked under SpecChange.                                        *)
(***************************************************************************)

\* C22: Chmod and Chtimes load the entry in one transaction and save it in a
\* second one.  A Write or Truncate of a handle on the same path that runs
\* between the two returns success and stores the handle's buffer, leaving
\* what Chmod or Chtimes loaded as it was; and when Chmod or Chtimes returns,
\* the entry holds the payload it loaded and the metadata it loaded with the
\* new mode or time, whatever was stored in between.
C22_ChangeOverwrites ==
  /\ []((changing.pc = "done" /\ last.op \in {"Chmod", "Chtimes"}) =>
          /\ last.err = OK
          /\ last.op = changing.op
          /\ loadFile(db, changing.name) =
               [err |-> OK, data |-> changing.data, meta |-> changing.meta])
  /\ [][\A h \in Handles :
          (/\ changing.pc = "loaded"
           /\ IsFile(h)
           /\ ~handles[h].closed
           /\ handles[h].name = changing.name
           /\ last'.h = h
           /\ last'.op \in {"Write", "Truncate"}) =>
            /\ last'.err = OK
            /\ loadFile(db', changing.name).data = handles'[h].buffer
            /\ changing'.wrote = <<handles'[h].buffer>>
            /\ changing'.data = changing.data
            /\ changing'.meta = changing.meta
            /\ changing'.pc = "loaded"]_vars

\* Chmod("a", 0400) loaded the empty file, the handle's Write stored the byte
\* 1 and returned success, and Chmod has returned: "a" is empty again, with
\* size 0 and mode 0400, while the handle holds the byte 1
C22_Witness ==
  /\ changing.pc = "done"
  /\ last.op = "Chmod"
  /\ last.err = OK
  /\ changing.wrote = <<(<<1>>)>>
  /\ changing.data = <<>>
  /\ loadFile(db, PathA).data = <<>>
  /\ loadFile(db, PathA).meta.Size = 0
  /\ loadFile(db, PathA).meta.Mode = Perm0400
  /\ \E h \in Handles :
       /\ handles[h].kind = "file"
       /\ handles[h].name = PathA
       /\ handles[h].buffer = <<1>>
       /\ handles[h].meta.Size = 1

====
